---- MODULE Spec2Model ----
(***************************************************************************)
(* WhatsApp PDF assistant: the persistent tables (PDFDocument, UserState,  *)
(* BugReport, ProcessedMessage), the in-memory vector stores, and the      *)
(* handlers that mutate them: WebhookService.handle_document,              *)
(* handle_text, handle_command, process_uploaded_pdf, and the JSON         *)
(* webhook of app/main.py.                                                 *)
(*                                                                         *)
(* Every handler is a coroutine on one asyncio event loop: it runs         *)
(* without interruption between two suspension points (document download,  *)
(* outbound send).  handle_document is therefore a task with a             *)
(* program counter; the other handlers do all their database work before    *)
(* their first suspension and are single actions.                          *)
(***************************************************************************)
EXTENDS Integers, FiniteSets, Sequences, TLC

\* ------------------------------------------------------------------ bounds
MaxUploads == 2
MaxReq == 2
MaxTasks == 2

\* ------------------------------------------------------- program constants
MAX_DOCS == 10
\* a retry limit one larger
MAX_RETRIES_OFF_BY_ONE == 2 + 1

MAX_RETRIES == 2
MAX_FILE_SIZE == 5 * 1024 * 1024

Users == {"u1", "u2"}
API_UPLOAD == "api_upload"
Owners == Users \cup {API_UPLOAD}
MsgIds == {"m1"}
None == 0

VARIABLES
    docs,          \* PDFDocument rows
    userStates,    \* UserState rows
    reports,       \* BugReport rows (user_id, content)
    processed,     \* ProcessedMessage rows per message_id (row count)
    vectorstores,  \* LLMService._vectorstores keys (document ids)
    tasks,         \* handle_document coroutines in flight
    now,           \* clock read by upload_date's default_factory
    created,       \* PDFDocument rows inserted by this process
    nreq,          \* handle_document calls so far
    handled,       \* message ids delivered so far (history)
    ingested,      \* handle_document calls that reached _set_user_state (history)
    ev,            \* the handler step taken last and what it did
    wf             \* the QA workflow graph: node to run next, State, _vectorstores paths

vars == <<docs, userStates, reports, processed, vectorstores, tasks,
          now, created, nreq, handled, ingested, ev, wf>>

\* ------------------------------------------------------------ text inputs
\* Message bodies as the transport delivers them.
Bodies == {"/help", "/list", "/select 2", "/select x", "/delete 1",
           "/delete 99", "/delete_all", "/REPORT", "/nope", "Thanks!",
           "please upload", "what can you do", "What is it about?"}

\* command bodies: every index form of /select and /delete
CmdBodies == {"/help", "/list", "/nope", "/select 1", "/select 2", "/select x",
              "/select", "/select 0", "/delete 1", "/delete 2", "/delete 0",
              "/delete 99", "/delete_all", "/REPORT", "What is it about?"}

\* bodies with intent keywords, alone and two at a time
IntentBodies == {"Thanks!", "please upload", "what can you do",
                 "Thanks for the upload", "Thanks, what can you do",
                 "What is it about?", "/REPORT", "/select 2"}

\* str.lower()
Lower(b) ==
    CASE b = "/REPORT" -> "/report"
      [] b = "Thanks!" -> "thanks!"
      [] b = "What is it about?" -> "what is it about?"
      [] b = "Thanks for the upload" -> "thanks for the upload"
      [] b = "Thanks, what can you do" -> "thanks, what can you do"
      [] OTHER -> b

\* message_text.startswith("/")
StartsWithSlash(t) ==
    t \in {"/help", "/list", "/select 2", "/select x", "/delete 1",
           "/delete 99", "/delete_all", "/report", "/REPORT", "/nope",
           "/select 1", "/select", "/select 0", "/delete 2", "/delete 0"}

\* any(pattern in text for pattern in upload_patterns), and the same for
\* thanks_patterns and capability_patterns
HasUploadPattern(t) == t \in {"please upload", "thanks for the upload"}
HasThanksPattern(t) ==
    t \in {"thanks!", "thanks for the upload", "thanks, what can you do"}
HasCapabilityPattern(t) == t \in {"what can you do", "thanks, what can you do"}

\* the three tests with the thanks patterns tried first
SpecialIntentThanksFirst(t) ==
    IF HasThanksPattern(t) THEN "thanks"
    ELSE IF HasUploadPattern(t) THEN "upload"
    ELSE IF HasCapabilityPattern(t) THEN "capabilities"
    ELSE "none"

\* handle_special_intent: the three tests in source order
SpecialIntent(t) ==
    IF HasUploadPattern(t) THEN "upload"
    ELSE IF HasThanksPattern(t) THEN "thanks"
    ELSE IF HasCapabilityPattern(t) THEN "capabilities"
    ELSE "none"

\* command.startswith(("/delete ", "/select ")), after strip()
IsDeleteCmd(c) == c \in {"/delete 1", "/delete 2", "/delete 0", "/delete 99"}
IsSelectCmd(c) == c \in {"/select 1", "/select 2", "/select 0", "/select x"}

\* int(command.split(" ")[1]) - 1; BadInt stands for ValueError
BadInt == -1000
\* the same without the "- 1"
CmdIndexNoOffset(c) ==
    CASE c \in {"/delete 1", "/select 1"} -> 1
      [] c \in {"/delete 2", "/select 2"} -> 2
      [] c \in {"/delete 0", "/select 0"} -> 0
      [] c = "/delete 99" -> 99
      [] OTHER -> BadInt

CmdIndex(c) ==
    CASE c \in {"/delete 1", "/select 1"} -> 0
      [] c \in {"/delete 2", "/select 2"} -> 1
      [] c \in {"/delete 0", "/select 0"} -> -1
      [] c = "/delete 99" -> 98
      [] OTHER -> BadInt

\* ------------------------------------------------------------ table helpers
DocIds(D) == {d.id : d \in D}
DocsOf(D, u) == {d \in D : d.user_id = u}

\* INTEGER PRIMARY KEY of SQLite: one more than the largest id in the table
NextId(D) ==
    IF D = {} THEN 1
    ELSE (CHOOSE i \in DocIds(D) : \A j \in DocIds(D) : j <= i) + 1

\* the same query ordered by upload_date.desc()
OldestDocDescending(D, u) ==
    CHOOSE d \in DocsOf(D, u) : \A e \in DocsOf(D, u) : d.upload_date >= e.upload_date

\* select(PDFDocument).where(user_id).order_by(upload_date).limit(1)
OldestDoc(D, u) ==
    CHOOSE d \in DocsOf(D, u) : \A e \in DocsOf(D, u) : d.upload_date <= e.upload_date

\* select(PDFDocument).where(user_id).order_by(upload_date.desc()).first()
NewestDoc(D, u) ==
    CHOOSE d \in DocsOf(D, u) : \A e \in DocsOf(D, u) : d.upload_date >= e.upload_date

\* the idx-th (0-based) document of the same query ordered oldest first
NthOldest(D, u, idx) ==
    CHOOSE d \in DocsOf(D, u) :
        Cardinality({e \in DocsOf(D, u) : e.upload_date < d.upload_date}) = idx

\* the idx-th (0-based) document of get_pdfs(): newest first
NthNewest(D, u, idx) ==
    CHOOSE d \in DocsOf(D, u) :
        Cardinality({e \in DocsOf(D, u) : e.upload_date > d.upload_date}) = idx

\* the lines of /list taken from the query ordered oldest first
ListingOldestFirst(D, u) ==
    [i \in 1..Cardinality(DocsOf(D, u)) |-> NthOldest(D, u, i - 1).id]

\* the ids of the lines "i. filename (date)" of /list, enumerate(pdfs, 1)
Listing(D, u) ==
    [i \in 1..Cardinality(DocsOf(D, u)) |-> NthNewest(D, u, i - 1).id]

NewDoc(D, u, date) ==
    [id |-> NextId(D), user_id |-> u, upload_date |-> date, content |-> "",
     processed |-> FALSE]

HasState(S, u) == \E r \in S : r.user_id = u
StateRow(S, u) == CHOOSE r \in S : r.user_id = u
ModeOf(S, u) == IF HasState(S, u) THEN StateRow(S, u).state ELSE "none"
ActiveOf(S, u) == IF HasState(S, u) THEN StateRow(S, u).active_pdf_id ELSE None

\* _set_user_state without the "is not None" test: the id is always written
SetUserStateOverwrite(S, u, state, active_pdf_id) ==
    (S \ {r \in S : r.user_id = u}) \cup
    {[user_id |-> u, state |-> state, active_pdf_id |-> active_pdf_id]}

\* _set_user_state without the lookup: a row is added on every call
SetUserStateInsert(S, u, state, active_pdf_id) ==
    S \cup {[user_id |-> u, state |-> state, active_pdf_id |-> active_pdf_id]}

\* WebhookService._set_user_state
SetUserState(S, u, state, active_pdf_id) ==
    IF HasState(S, u)
    THEN LET r == StateRow(S, u) IN
         (S \ {r}) \cup
         {[r EXCEPT !.state = state,
                    !.active_pdf_id = IF active_pdf_id # None
                                      THEN active_pdf_id ELSE @]}
    ELSE S \cup {[user_id |-> u, state |-> state,
                  active_pdf_id |-> active_pdf_id]}

\* pdf_doc.content = pdf_text; session.commit()
SetContent(D, id, text) ==
    {IF d.id = id THEN [d EXCEPT !.content = text] ELSE d : d \in D}

\* ------------------------------------------------------------- event record
\* op: the handler; redelivery: the message id had been delivered before;
\* replies: the outbound messages of the step; qa: the document id handed to
\* get_answer; doc: the document inserted or ingested; evicted: the document
\* deleted by the quota; stored: the step inserted a PDFDocument row; req: the
\* handle_document call the step belongs to; result: what the handler returned
\* ("raised" for an exception leaving it, "suspended" while it awaits);
\* answer: what get_answer returned; retrieved: get_answer queried the
\* vector store of qa; mime_type, filename: the document fields when the
\* step ran the type check; size: len(pdf_bytes) when it ran the size check;
\* attempts: calls of extract_text_from_bytes made by the upload so far;
\* extracted: one of them made in this step returned text; listing: the
\* document ids of the lines of a /list reply, in order; object, type: the
\* "object" of a body given to handle_webhook and the type of its event.
NoEv == [op |-> "init", user |-> "", body |-> "", mid |-> "", redelivery |-> FALSE,
         replies |-> <<>>, qa |-> None, doc |-> None, evicted |-> None,
         stored |-> FALSE, req |-> 0, result |-> "",
         answer |-> "", retrieved |-> FALSE,
         mime_type |-> "", filename |-> "", size |-> 0,
         attempts |-> 0, extracted |-> FALSE, listing |-> <<>>,
         object |-> "", type |-> ""]

\* ---------------------------------------------------- services/state.py
\* Message and State are pydantic models.  State declares file_path, messages
\* and command; a keyword that is not a declared field is ignored by the
\* constructor, and a field that is not given takes its default.
NoCommand == "None"
Message(role, content) == [role |-> role, content |-> content]
StateFields == {"file_path", "messages", "command"}
StateDefaults == [file_path |-> "", messages |-> <<>>, command |-> NoCommand]
State(kw) ==
    [f \in StateFields |-> IF f \in DOMAIN kw THEN kw[f] ELSE StateDefaults[f]]

\* getattr(state, name, default)
GetAttr(st, name, default) == IF name \in DOMAIN st THEN st[name] ELSE default

\* No workflow run yet: LLMService.__init__ leaves _vectorstores empty.
WfIdle == [node |-> "idle", state |-> State([file_path |-> ""]),
           valid |-> FALSE, indexed |-> {}, ran |-> "",
           prev |-> State([file_path |-> ""])]

\* --------------------------------------------------------------------- Init
\* The tables live in the database file (app/core/database.py) and outlive
\* the process; _vectorstores and the coroutines do not.
\* InitEmpty: a fresh database.
InitEmpty ==
    /\ docs = {}
    /\ userStates = {}
    /\ reports = {}
    /\ processed = [m \in MsgIds |-> 0]
    /\ vectorstores = {}
    /\ tasks = {}
    /\ now = 0
    /\ created = 0
    /\ nreq = 0
    /\ handled = {}
    /\ ingested = {}
    /\ ev = NoEv
    /\ wf = WfIdle

\* InitQuota: the process restarts on a database in which u1 has uploaded
\* MAX_DOCS - 1 documents through handle_document, the last one active, and
\* MAX_DOCS - 1 documents have then been posted to /upload-pdf.
SeedSize == MAX_DOCS - 1
SeedDocs ==
    {[id |-> i, user_id |-> "u1", upload_date |-> i, content |-> "text",
      processed |-> FALSE] : i \in 1..SeedSize}
    \cup
    {[id |-> SeedSize + i, user_id |-> API_UPLOAD, upload_date |-> SeedSize + i,
      content |-> "text", processed |-> FALSE] : i \in 1..SeedSize}

InitQuota ==
    /\ docs = SeedDocs
    /\ userStates = {[user_id |-> "u1", state |-> "active",
                      active_pdf_id |-> SeedSize]}
    /\ reports = {}
    /\ processed = [m \in MsgIds |-> 0]
    /\ vectorstores = {}
    /\ tasks = {}
    /\ now = 2 * SeedSize
    /\ created = 0
    /\ nreq = 0
    /\ handled = {}
    /\ ingested = {}
    /\ ev = NoEv
    /\ wf = WfIdle

\* ------------------------------------------------------------ handle_command
\* What handle_command does to the tables: [D, S, replies, result].
HandleCommand(command, u) ==
    LET mine == DocsOf(docs, u) IN
    CASE command = "/help" ->
            [D |-> docs, S |-> userStates, replies |-> <<"help">>, result |-> "help"]
      [] command = "/list" ->
            [D |-> docs, S |-> userStates,
             replies |-> IF mine = {} THEN <<"no_pdfs">> ELSE <<"list">>,
             result |-> "list"]
      [] IsDeleteCmd(command) \/ IsSelectCmd(command) ->
            LET idx == CmdIndex(command) IN
            IF idx = BadInt THEN
                [D |-> docs, S |-> userStates, replies |-> <<"invalid_format">>,
                 result |-> "error"]
            ELSE IF mine = {} \/ idx < 0 \/ idx >= Cardinality(mine) THEN
                [D |-> docs, S |-> userStates, replies |-> <<"invalid_selection">>,
                 result |-> "error"]
            ELSE LET selected_pdf == NthNewest(docs, u, idx) IN
                 IF IsDeleteCmd(command) THEN
                    [D |-> docs \ {selected_pdf},
                     S |-> SetUserState(userStates, u, "active", None),
                     replies |-> <<"deleted">>, result |-> "delete"]
                 ELSE
                    [D |-> docs,
                     S |-> SetUserState(userStates, u, "active", selected_pdf.id),
                     replies |-> <<"selected">>, result |-> "select"]
      [] command = "/delete_all" ->
            IF mine = {} THEN
                [D |-> docs, S |-> userStates, replies |-> <<"nothing_to_delete">>,
                 result |-> "delete_all"]
            ELSE
                [D |-> docs \ mine,
                 S |-> SetUserState(userStates, u, "active", None),
                 replies |-> <<"all_deleted">>, result |-> "delete_all"]
      [] command = "/report" ->
            [D |-> docs, S |-> SetUserState(userStates, u, "awaiting_report", None),
             replies |-> <<"describe_problem">>, result |-> "report_started"]
      [] OTHER ->
            [D |-> docs, S |-> userStates, replies |-> <<"unknown_command">>,
             result |-> "unknown"]

\* --------------------------------------------------------------- handle_text
\* state written by the report branch (webhook_service.py:299)
StateAfterReport == "active"
\* the welcome branch leaving the state as it found it
StateAfterWelcomeUnset == "new"

\* state written by the welcome branch (webhook_service.py:328)
StateAfterWelcome == "welcomed"

\* The report branch: BugReport row added, state reset, one reply.
CaptureReport(S, R, u, message_text) ==
    LET r == StateRow(S, u) IN
    [S |-> (S \ {r}) \cup {[r EXCEPT !.state = StateAfterReport]},
     R |-> R \cup {[user_id |-> u, content |-> message_text]}]

\* session.get(PDFDocument, user_state.active_pdf_id): looked up by id alone
ActiveDocRows(D, S, u) ==
    IF ActiveOf(S, u) # None THEN {d \in D : d.id = ActiveOf(S, u)} ELSE {}

\* LLMService.get_answer(question, str(doc_id)): always returns a str.
\* chainOK: the workflow and the retrieval chain run without raising (a raise
\* is caught and turned into the "Error processing your question" string).
\* The workflow's result carries no response attribute, so the answer comes
\* from the fallback: the store registered under doc_id if there is one,
\* the "No relevant information found" string otherwise.  [kind, retrieved]
GetAnswer(V, doc_id, chainOK) ==
    IF ~chainOK THEN [kind |-> "error_string", retrieved |-> FALSE]
    ELSE IF doc_id \in V THEN [kind |-> "answer", retrieved |-> TRUE]
    ELSE [kind |-> "no_info", retrieved |-> FALSE]

\* the answer branch with a send of the returned str before the failure
QaRepliesAnswerThenError(a) == <<a.kind, "error">>

\* messages sent by the answer branch: evaluating answer["answer"] raises
\* before send_message is called, the except branch sends the apology
QaReplies(a) == <<"error">>

\* What handle_text does: [D, S, R, replies, qa, result, answer, retrieved].
\* answerOK is the chainOK of get_answer.  handle_text then reads
\* answer["answer"] of the returned str: TypeError, caught by the outer
\* except, which sends the apology and raises HTTPException(500).
HandleText(u, body, answerOK) ==
    LET message_text == Lower(body) IN
    IF StartsWithSlash(message_text) THEN
        LET c == HandleCommand(message_text, u) IN
        [D |-> c.D, S |-> c.S, R |-> reports, replies |-> c.replies,
         qa |-> None, result |-> c.result]
    ELSE IF SpecialIntent(message_text) # "none" THEN
        [D |-> docs, S |-> userStates, R |-> reports,
         replies |-> <<SpecialIntent(message_text)>>, qa |-> None,
         result |-> "intent_handled"]
    ELSE
        LET S1 == IF HasState(userStates, u) THEN userStates
                  ELSE userStates \cup
                       {[user_id |-> u, state |-> "new", active_pdf_id |-> None]}
            byActive == ActiveDocRows(docs, S1, u)
            \* no active document found: fall back to the newest upload
            fallback == byActive = {} /\ DocsOf(docs, u) # {}
            S2 == IF fallback
                  THEN SetUserState(S1, u, ModeOf(S1, u), NewestDoc(docs, u).id)
                  ELSE S1
            hasDoc == byActive # {} \/ fallback
            pdf_id == IF byActive # {} THEN ActiveOf(S1, u)
                      ELSE IF fallback THEN NewestDoc(docs, u).id ELSE None
            state == ModeOf(S2, u)
        IN
        IF state = "awaiting_report" THEN
            LET c == CaptureReport(S2, reports, u, message_text) IN
            [D |-> docs, S |-> c.S, R |-> c.R, replies |-> <<"report_thanks">>,
             qa |-> None, result |-> "report_received"]
        ELSE IF hasDoc /\ message_text # "" THEN
            IF fallback THEN
                \* the commit of the fallback update expired pdf_doc and the
                \* session is closed: reading pdf_doc.id raises, the except
                \* branch sends the apology and raises HTTPException(500)
                [D |-> docs, S |-> S2, R |-> reports, replies |-> <<"error">>,
                 qa |-> None, result |-> "raised"]
            ELSE
                LET S3 == IF state \in {"new", "welcomed"}
                          THEN SetUserState(S2, u, "active", pdf_id) ELSE S2
                    a == GetAnswer(vectorstores, pdf_id, answerOK)
                IN [D |-> docs, S |-> S3, R |-> reports, replies |-> QaReplies(a),
                    qa |-> pdf_id, result |-> "raised", answer |-> a.kind,
                    retrieved |-> a.retrieved]
        ELSE IF state = "new" THEN
            [D |-> docs, S |-> SetUserState(S2, u, StateAfterWelcome, None),
             R |-> reports, replies |-> <<"welcome">>, qa |-> None,
             result |-> "text"]
        ELSE
            [D |-> docs, S |-> S2, R |-> reports, replies |-> <<"no_pdf_reminder">>,
             qa |-> None, result |-> "text"]

\* NoMid: an event whose message id the model does not track
NoMid == ""
Delivered(mid) == IF mid = NoMid THEN handled ELSE handled \cup {mid}

\* POST /webhook of app/routes/webhook.py, text path: no ProcessedMessage
\* lookup, the form's body goes straight to handle_text.
FormText(u, body, mid, answerOK) ==
    LET h == HandleText(u, body, answerOK) IN
    /\ docs' = h.D
    /\ userStates' = h.S
    /\ reports' = h.R
    /\ handled' = Delivered(mid)
    /\ ev' = [NoEv EXCEPT !.op = "text", !.user = u, !.body = body, !.mid = mid,
                          !.redelivery = (mid \in handled),
                          !.replies = h.replies, !.qa = h.qa,
                          !.result = h.result,
                          !.listing = IF h.replies = <<"list">>
                                      THEN Listing(docs, u) ELSE <<>>,
                          !.answer = IF h.qa # None THEN h.answer ELSE "",
                          !.retrieved = IF h.qa # None THEN h.retrieved ELSE FALSE]
    /\ UNCHANGED <<wf, processed, vectorstores, tasks, now, created, nreq, ingested>>

\* ----------------------------------------------------------- handle_document
\* A handle_document coroutine: req numbers the calls in arrival order, pc is
\* the await it is suspended at, doc the row it inserted, attempt the index
\* of the retry loop.
Task(req, u, pc, doc, attempt) ==
    [req |-> req, user |-> u, pc |-> pc, doc |-> doc, attempt |-> attempt]

\* webhook_service.py:114-148: count, evict the oldest at the limit, insert.
\* [D, doc, evicted]
StoreDocument(D, u, date) ==
    LET atLimit == Cardinality(DocsOf(D, u)) >= MAX_DOCS
        victim == IF atLimit THEN {OldestDoc(D, u)} ELSE {}
        D1 == D \ victim
        pdf_doc == NewDoc(D1, u, date)
    IN [D |-> D1 \cup {pdf_doc}, doc |-> pdf_doc.id,
        evicted |-> IF atLimit THEN OldestDoc(D, u).id ELSE None]

\* webhook_service.py:150-202, from attempt a up to the next suspension.
\* good: extract_text_from_bytes returns text for these bytes (it raises
\* otherwise, on every attempt); win: the attempt whose process_document
\* succeeds, MAX_RETRIES + 1 if none does.  Every iteration of the loop
\* calls extract_text_from_bytes once; the loop ends at the first iteration
\* that reaches the completion send, or after iteration MAX_RETRIES.
\* [D, S, V, ok, attempt, extracted, attempts]
RunAttempts(D, S, V, u, doc, a, good, win) ==
    LET present == doc \in DocIds(D)
        extracted == good /\ present /\ a <= MAX_RETRIES
        D1 == IF extracted THEN SetContent(D, doc, "text") ELSE D
        ok == good /\ present /\ win <= MAX_RETRIES
    IN [D |-> D1,
        S |-> IF ok THEN SetUserState(S, u, "active", doc) ELSE S,
        V |-> IF ok THEN V \cup {doc} ELSE V,
        ok |-> ok,
        attempt |-> win,
        extracted |-> extracted,
        attempts |-> IF ok THEN win + 1 ELSE MAX_RETRIES + 1]

\* history entry of a call that set its document active
Done(t, doc) == [req |-> t.req, user |-> t.user, doc |-> doc]

\* the attempts that may succeed from attempt a on
Wins(a, good) ==
    IF good THEN a..(MAX_RETRIES + 1) ELSE {MAX_RETRIES + 1}

\* routes/webhook.py media path: handle_document is called, the coroutine
\* suspends in its first download.
DocRequest(u, mid) ==
    /\ nreq < MaxReq
    /\ Cardinality(tasks) < MaxTasks
    /\ nreq' = nreq + 1
    /\ tasks' = tasks \cup {Task(nreq + 1, u, "download1", None, 0)}
    /\ handled' = Delivered(mid)
    /\ ev' = [NoEv EXCEPT !.op = "doc_request", !.user = u, !.mid = mid,
                          !.redelivery = (mid \in handled),
                          !.req = nreq + 1, !.result = "suspended"]
    /\ UNCHANGED <<wf, docs, userStates, reports, processed, vectorstores, now,
                   created, ingested>>

\* document["mime_type"] and document["filename"] of an upload
PDF_MIME == "application/pdf"
MimeTypes == {PDF_MIME, "application/octet-stream", "image/jpeg"}
Filenames == {"", "report.pdf", "notes.docx"}

\* webhook_service.py:86-96: first download returns, then the mime check
\* (mime_type != "application/pdf"; the filename is not looked at)
DocTypeCheck(t, ok, mime_type, filename) ==
    LET pdf == mime_type = PDF_MIME IN
    /\ t \in tasks /\ t.pc = "download1"
    /\ tasks' = IF ok /\ pdf THEN (tasks \ {t}) \cup {[t EXCEPT !.pc = "download2"]}
                ELSE tasks \ {t}
    /\ ev' = [NoEv EXCEPT !.op = "doc_download1", !.user = t.user, !.req = t.req,
                          !.replies = IF ok /\ ~pdf THEN <<"unsupported_type">> ELSE <<>>,
                          !.mime_type = IF ok THEN mime_type ELSE "",
                          !.filename = IF ok THEN filename ELSE "",
                          !.result = IF ~ok THEN "raised"
                                     ELSE IF ~pdf THEN "unsupported_document_type"
                                     ELSE "suspended"]
    /\ UNCHANGED <<wf, docs, userStates, reports, processed, vectorstores, now,
                   created, nreq, handled, ingested>>

\* the same step for a message built by routes/webhook.py: the type is
\* "document" exactly for application/pdf, the filename is ""
DocDownload1(t, ok, pdf) ==
    DocTypeCheck(t, ok, IF pdf THEN PDF_MIME ELSE "image/jpeg", "")

\* webhook_service.py:99: second download returns
DocDownload2(t, ok) ==
    /\ t \in tasks /\ t.pc = "download2"
    /\ tasks' = IF ok THEN (tasks \ {t}) \cup {[t EXCEPT !.pc = "notify"]}
                ELSE tasks \ {t}
    /\ ev' = [NoEv EXCEPT !.op = "doc_download2", !.user = t.user, !.req = t.req,
                          !.result = IF ok THEN "suspended" ELSE "raised"]
    /\ UNCHANGED <<wf, docs, userStates, reports, processed, vectorstores, now,
                   created, nreq, handled, ingested>>

\* webhook_service.py:104-202: the "Processing" send returns; size gate,
\* quota, insert and the retry loop run without suspension up to the
\* completion send (or to the failure replies).
DocIngest(t, size, good, win) ==
    /\ t \in tasks /\ t.pc = "notify"
    /\ win \in Wins(0, good)
    /\ IF size > MAX_FILE_SIZE THEN
          /\ tasks' = tasks \ {t}
          /\ ev' = [NoEv EXCEPT !.op = "doc_ingest", !.user = t.user, !.req = t.req,
                                !.replies = <<"processing", "too_large">>,
                                !.size = size,
                                !.result = "file_too_large"]
          /\ UNCHANGED <<docs, userStates, vectorstores, now, created, ingested>>
       ELSE
          /\ created < MaxUploads
          /\ LET st == StoreDocument(docs, t.user, now + 1)
                 r == RunAttempts(st.D, userStates, vectorstores, t.user, st.doc,
                                  0, good, win)
             IN /\ docs' = r.D
                /\ userStates' = r.S
                /\ vectorstores' = r.V
                /\ ingested' = IF r.ok THEN ingested \cup {Done(t, st.doc)}
                               ELSE ingested
                /\ tasks' = IF r.ok
                            THEN (tasks \ {t}) \cup
                                 {[t EXCEPT !.pc = "complete", !.doc = st.doc,
                                            !.attempt = r.attempt]}
                            ELSE tasks \ {t}
                /\ ev' = [NoEv EXCEPT !.op = "doc_ingest", !.user = t.user,
                                      !.req = t.req, !.doc = st.doc,
                                      !.evicted = st.evicted, !.stored = TRUE,
                                      !.size = size,
                                      !.attempts = r.attempts,
                                      !.extracted = r.extracted,
                                      !.replies = IF r.ok THEN <<"processing">>
                                                  ELSE <<"processing", "sorry_retries",
                                                         "sorry_error">>,
                                      !.result = IF r.ok THEN "suspended"
                                                 ELSE "document_processing_exception"]
          /\ now' = now + 1
          /\ created' = created + 1
    /\ UNCHANGED <<wf, reports, processed, nreq, handled>>

\* webhook_service.py:173-202: the completion send returns or raises; a
\* raise re-enters the retry loop.
DocComplete(t, sendOK, win) ==
    /\ t \in tasks /\ t.pc = "complete"
    /\ IF sendOK THEN
          /\ win = t.attempt
          /\ tasks' = tasks \ {t}
          /\ ev' = [NoEv EXCEPT !.op = "doc_complete", !.user = t.user, !.req = t.req,
                                !.doc = t.doc, !.replies = <<"finished">>,
                                !.attempts = t.attempt + 1,
                                !.result = "success"]
          /\ UNCHANGED <<docs, userStates, vectorstores, ingested>>
       ELSE
          /\ win \in Wins(t.attempt + 1, TRUE)
          /\ LET r == RunAttempts(docs, userStates, vectorstores, t.user, t.doc,
                                  t.attempt + 1, TRUE, win)
             IN /\ docs' = r.D
                /\ userStates' = r.S
                /\ vectorstores' = r.V
                /\ ingested' = IF r.ok THEN ingested \cup {Done(t, t.doc)}
                               ELSE ingested
                /\ tasks' = IF r.ok
                            THEN (tasks \ {t}) \cup {[t EXCEPT !.attempt = r.attempt]}
                            ELSE tasks \ {t}
                /\ ev' = [NoEv EXCEPT !.op = "doc_complete", !.user = t.user,
                                      !.req = t.req, !.doc = t.doc,
                                      !.attempts = r.attempts,
                                      !.extracted = r.extracted,
                                      !.replies = IF r.ok THEN <<>>
                                                  ELSE <<"sorry_retries", "sorry_error">>,
                                      !.result = IF r.ok THEN "suspended"
                                                 ELSE "document_processing_exception"]
    /\ UNCHANGED <<wf, reports, processed, now, created, nreq, handled>>

\* -------------------------------------------------------- process_uploaded_pdf
\* POST /upload-pdf of app/routes/webhook.py: the row is inserted for
\* "api_upload" without a count of the owner's rows.
ApiUpload(good) ==
    /\ created < MaxUploads
    /\ LET pdf_doc == NewDoc(docs, API_UPLOAD, now + 1) IN
       /\ docs' = IF good THEN SetContent(docs \cup {pdf_doc}, pdf_doc.id, "text")
                  ELSE docs \cup {pdf_doc}
       /\ vectorstores' = IF good THEN vectorstores \cup {pdf_doc.id} ELSE vectorstores
       /\ ev' = [NoEv EXCEPT !.op = "api_upload", !.user = API_UPLOAD,
                             !.doc = pdf_doc.id, !.stored = TRUE,
                             !.result = IF good THEN "success" ELSE "raised"]
    /\ now' = now + 1
    /\ created' = created + 1
    /\ UNCHANGED <<wf, userStates, reports, processed, tasks, nreq, handled, ingested>>

\* ------------------------------------------------------- app/main.py webhook
\* POST /webhook of app/main.py (JSON).  kind is the message type; a document
\* is stored only when its mime type is application/pdf.  good: extraction
\* and indexing succeed (document), get_answer's chain runs (text); the text
\* path sends the str get_answer returned.
MainWebhook(u, kind, pdf, good, mid) ==
    /\ handled' = Delivered(mid)
    /\ IF mid # NoMid /\ processed[mid] > 0 THEN
          /\ ev' = [NoEv EXCEPT !.op = "main_webhook", !.user = u, !.mid = mid,
                                !.redelivery = (mid \in handled),
                                !.result = "already_processed"]
          /\ UNCHANGED <<docs, vectorstores, processed, now, created>>
       ELSE
          /\ processed' = IF mid # NoMid THEN [processed EXCEPT ![mid] = @ + 1]
                          ELSE processed
          /\ IF kind = "document" /\ pdf THEN
                /\ created < MaxUploads
                /\ LET pdf_doc == NewDoc(docs, u, now + 1) IN
                   /\ docs' = IF good
                              THEN SetContent(docs \cup {pdf_doc}, pdf_doc.id, "text")
                              ELSE docs \cup {pdf_doc}
                   /\ vectorstores' = IF good THEN vectorstores \cup {pdf_doc.id}
                                      ELSE vectorstores
                   /\ ev' = [NoEv EXCEPT !.op = "main_webhook", !.user = u,
                                         !.mid = mid,
                                         !.redelivery = (mid \in handled),
                                         !.doc = pdf_doc.id, !.stored = TRUE,
                                         !.replies = IF good THEN <<"received">>
                                                     ELSE <<>>,
                                         !.result = IF good THEN "success"
                                                    ELSE "raised"]
                /\ now' = now + 1
                /\ created' = created + 1
             ELSE
                /\ LET ask == kind = "text" /\ DocsOf(docs, u) # {}
                       pdf_id == IF ask THEN NewestDoc(docs, u).id ELSE None
                       a == GetAnswer(vectorstores, pdf_id, good)
                   IN ev' = [NoEv EXCEPT !.op = "main_webhook", !.user = u,
                                         !.mid = mid,
                                         !.redelivery = (mid \in handled),
                                         !.replies =
                                             IF kind # "text" THEN <<>>
                                             ELSE IF ask THEN <<a.kind>>
                                             ELSE <<"send_pdf_first">>,
                                         !.qa = pdf_id,
                                         !.answer = IF ask THEN a.kind ELSE "",
                                         !.retrieved = ask /\ a.retrieved,
                                         !.result = "success"]
                /\ UNCHANGED <<docs, vectorstores, now, created>>
    /\ UNCHANGED <<wf, userStates, reports, tasks, nreq, ingested>>

\* ------------------------------------------------------------ handle_webhook
\* body["object"] and the kind of event in the body
Objects == {"whatsapp_business_account", "page", ""}
EventTypes == {"status", "image", "sticker", "none"}

\* the client routes/webhook.py gives to WebhookService is a
\* TwilioWhatsAppClient, whose methods are send_message and download_media:
\* self.whatsapp.extract_message_data is an AttributeError
ClientExtractsMessageData == FALSE

\* WebhookService.handle_webhook: the object test, then the extraction, then
\* the dispatch on the type; any exception that is not an HTTPException
\* becomes HTTPException(500).
HandleWebhook(u, object, type) ==
    /\ ev' = [NoEv EXCEPT
               !.op = "handle_webhook", !.user = u, !.object = object,
               !.type = type,
               !.replies = IF object = "whatsapp_business_account"
                              /\ ClientExtractsMessageData /\ type = "image"
                           THEN <<"images_rejected">> ELSE <<>>,
               !.result = IF object # "whatsapp_business_account" THEN "http_400"
                          ELSE IF ~ClientExtractsMessageData THEN "http_500"
                          ELSE IF type = "none" THEN "no_message"
                          ELSE IF type = "status" THEN "status_update"
                          ELSE IF type = "image" THEN "unsupported_file_type"
                          ELSE "unsupported_message_type"]
    /\ UNCHANGED <<wf, docs, userStates, reports, processed, vectorstores, tasks,
                   now, created, nreq, handled, ingested>>

\* ------------------------------------------------ LLMService workflow graph
\* What a caller or an interrupt hands to the graph: nothing, the path of a
\* PDF file on disk, the path of a file that is not a PDF, a command, a
\* question.  All are stripped and in lower case already.
WfInputs == {"", "good.pdf", "notes.txt", "end", "new", "what is it about?"}

\* os.path.exists(p), p.lower().endswith('.pdf') and a %PDF- header
FileIsPdf(p) == p = "good.pdf"
PathEndsWithPdf(p) == p = "good.pdf"

WelcomeMessage == "Hello! I'm your PDF Assistant. ..."
PromptMessage == "Your document has been processed. ..."

\* f"Sorry, I couldn't process '{state.file_path}'. Please provide ..."
ErrorMessage(p) ==
    CASE p = "" -> "Sorry, I couldn't process ''."
      [] p = "good.pdf" -> "Sorry, I couldn't process 'good.pdf'."
      [] p = "notes.txt" -> "Sorry, I couldn't process 'notes.txt'."
      [] p = "end" -> "Sorry, I couldn't process 'end'."
      [] p = "new" -> "Sorry, I couldn't process 'new'."
      [] OTHER -> "Sorry, I couldn't process 'what is it about?'."

\* f"The document '{document_name}' has been successfully loaded ..."
SuccessMessage(p) ==
    CASE p = "good.pdf" -> "The document 'good.pdf' has been successfully loaded."
      [] OTHER -> "The document has been successfully loaded."

\* "I'm your PDF Assistant" in content
HasAssistantPhrase(content) == content = WelcomeMessage

\* any(cmd in question.lower() for cmd in ["new", "end", "quit", "exit"])
HasCommandPhrase(question) == question \in {"end", "new"}

\* show_welcome's duplicate check with the check left out
WelcomeCheckSkipped(messages) == FALSE

\* show_welcome: welcome_already_shown
WelcomeAlreadyShown(messages) ==
    \E i \in 1..Len(messages) :
        messages[i].role = "system" /\ HasAssistantPhrase(messages[i].content)

\* show_welcome: the welcome is appended unless already shown; the content of
\* the first user message, if any, becomes file_path.
ShowWelcome(st) ==
    LET messages == IF WelcomeAlreadyShown(st.messages) THEN st.messages
                    ELSE Append(st.messages, Message("system", WelcomeMessage))
        users == {i \in 1..Len(messages) : messages[i].role = "user"}
        first == CHOOSE i \in users : \A j \in users : i <= j
    IN  IF users # {} /\ messages[first].content # ""
        THEN State([file_path |-> messages[first].content, messages |-> messages])
        ELSE State([file_path |-> "", messages |-> messages])

\* initialize_context: with no file_path the node takes the interrupt's input
InitializeContext(st, user_input) ==
    IF st.file_path = "" /\ user_input # ""
    THEN State([file_path |-> user_input, messages |-> st.messages])
    ELSE st

\* validate_document: [state, is_valid, indexed]; a path found on disk as a
\* PDF is handed to process_document_sync, which keys _vectorstores by it.
ValidateDocument(st, indexed) ==
    LET file_path == st.file_path
        is_valid == file_path \in indexed \/ FileIsPdf(file_path)
        success_message == SuccessMessage(file_path)
        present == \E i \in 1..Len(st.messages) :
                       st.messages[i].content = success_message
        new_messages == IF is_valid /\ ~present
                        THEN Append(st.messages, Message("system", success_message))
                        ELSE st.messages
    IN  [state |-> State([file_path |-> file_path, messages |-> new_messages,
                          document_valid |-> is_valid,
                          response |-> IF is_valid THEN success_message
                                       ELSE "error"]),
         is_valid |-> is_valid,
         indexed |-> IF file_path \notin indexed /\ FileIsPdf(file_path)
                     THEN indexed \cup {file_path} ELSE indexed]

\* route_after_validation
RouteAfterValidation(st) ==
    IF GetAttr(st, "document_valid", FALSE) THEN "request_question"
    ELSE "handle_invalid_document"

\* handle_invalid_document
HandleInvalidDocument(st) ==
    LET error_message == GetAttr(st, "response", ErrorMessage(st.file_path))
        error_already_in_messages ==
            \E i \in 1..Len(st.messages) :
                /\ st.messages[i].role = "system"
                /\ st.messages[i].content = error_message
        new_messages == IF error_already_in_messages THEN st.messages
                        ELSE Append(st.messages, Message("system", error_message))
    IN  State([file_path |-> "", messages |-> new_messages])

\* request_question
RequestQuestion(st, user_input) ==
    LET messages ==
            IF st.messages = <<>> \/ st.messages[Len(st.messages)].role = "assistant"
            THEN Append(st.messages, Message("system", PromptMessage))
            ELSE st.messages
    IN  IF user_input = ""
        THEN State([file_path |-> st.file_path, messages |-> messages])
        ELSE IF user_input \in {"end", "quit", "exit"}
        THEN State([file_path |-> st.file_path, messages |-> messages,
                    command |-> "end"])
        ELSE IF user_input = "new"
        THEN State([file_path |-> "", messages |-> <<>>, command |-> "new"])
        ELSE IF PathEndsWithPdf(user_input)
        THEN State([file_path |-> user_input, messages |-> <<>>, command |-> "new"])
        ELSE State([file_path |-> st.file_path,
                    messages |-> Append(messages, Message("user", user_input))])

\* check_next_action, and the node its answer is mapped to
CheckNextAction(st) ==
    LET command == GetAttr(st, "command", NoCommand)
    IN  IF command = "end" THEN "END"
        ELSE IF command = "new" THEN "initialize_context"
        ELSE "generate_response"

\* generate_response: the state as it came, or a State built from file_path
\* and a response keyword
GenerateResponse(st, indexed) ==
    LET users == {i \in 1..Len(st.messages) : st.messages[i].role = "user"}
        last == CHOOSE i \in users : \A j \in users : j <= i
    IN  IF GetAttr(st, "document_valid", NoCommand) = FALSE THEN st
        ELSE IF users = {} THEN st
        ELSE IF HasCommandPhrase(st.messages[last].content) THEN st
        ELSE IF st.file_path \notin indexed
        THEN State([file_path |-> st.file_path, response |-> "error"])
        ELSE State([file_path |-> st.file_path, response |-> "answer"])

\* The graph is invoked at START: by get_answer with the document id as
\* file_path and the question as the one message, or again with the State
\* it stopped in, waiting at the interrupt of initialize_context.
WfRecord(node, st, valid, indexed, ran, prev) ==
    [node |-> node, state |-> st, valid |-> valid, indexed |-> indexed,
     ran |-> ran, prev |-> prev]

WorkflowInvoke(question, doc_id) ==
    /\ wf.node \in {"idle", "END"}
    /\ LET st == State([file_path |-> doc_id,
                        messages |-> <<Message("user", question)>>])
       IN  wf' = WfRecord("START", st, FALSE, wf.indexed, "", st)
    /\ ev' = [NoEv EXCEPT !.op = "workflow_invoke", !.body = question]
    /\ UNCHANGED <<docs, userStates, reports, processed, vectorstores, tasks,
                   now, created, nreq, handled, ingested>>

WorkflowRerun ==
    /\ wf.node = "initialize_context"
    /\ wf.state.file_path = ""
    /\ wf' = WfRecord("START", wf.state, FALSE, wf.indexed, "", wf.state)
    /\ ev' = [NoEv EXCEPT !.op = "workflow_rerun"]
    /\ UNCHANGED <<docs, userStates, reports, processed, vectorstores, tasks,
                   now, created, nreq, handled, ingested>>

\* One superstep: the node wf.node runs on the State and the edge out of it
\* is taken.  user_input is what an interrupt of the node returns.
WorkflowStep(user_input) ==
    /\ wf.node \notin {"idle", "END"}
    /\ user_input # "" =>
          \/ wf.node = "initialize_context" /\ wf.state.file_path = ""
          \/ wf.node = "request_question"
    /\ LET st == wf.state
           v == ValidateDocument(st, wf.indexed)
           q == RequestQuestion(st, user_input)
       IN  wf' =
             CASE wf.node = "START" ->
                    WfRecord("show_welcome", st, wf.valid, wf.indexed, "START", st)
               [] wf.node = "show_welcome" ->
                    WfRecord("initialize_context", ShowWelcome(st), wf.valid,
                             wf.indexed, "show_welcome", st)
               [] wf.node = "initialize_context" ->
                    WfRecord("validate_document", InitializeContext(st, user_input),
                             wf.valid, wf.indexed, "initialize_context", st)
               [] wf.node = "validate_document" ->
                    WfRecord(RouteAfterValidation(v.state), v.state, v.is_valid,
                             v.indexed, "validate_document", st)
               [] wf.node = "handle_invalid_document" ->
                    WfRecord("initialize_context", HandleInvalidDocument(st),
                             wf.valid, wf.indexed, "handle_invalid_document", st)
               [] wf.node = "request_question" ->
                    WfRecord(CheckNextAction(q), q, wf.valid, wf.indexed,
                             "request_question", st)
               [] OTHER ->
                    WfRecord("request_question", GenerateResponse(st, wf.indexed),
                             wf.valid, wf.indexed, "generate_response", st)
    /\ ev' = [NoEv EXCEPT !.op = "workflow_step", !.body = user_input]
    /\ UNCHANGED <<docs, userStates, reports, processed, vectorstores, tasks,
                   now, created, nreq, handled, ingested>>

\* ------------------------------------------------------------ specifications
\* a coroutine in flight resumes after its type check
TaskResume ==
    \/ \E t \in tasks, ok \in BOOLEAN : DocDownload2(t, ok)
    \/ \E t \in tasks, size \in {MAX_FILE_SIZE, MAX_FILE_SIZE + 1},
          good \in BOOLEAN, win \in 0..(MAX_RETRIES + 1) :
          DocIngest(t, size, good, win)
    \/ \E t \in tasks, sendOK \in BOOLEAN, win \in 0..(MAX_RETRIES + 1) :
          DocComplete(t, sendOK, win)

\* a coroutine in flight resumes
TaskStep ==
    \/ \E t \in tasks, ok \in BOOLEAN, pdf \in BOOLEAN : DocDownload1(t, ok, pdf)
    \/ TaskResume

\* no handle_document coroutine is in flight
Idle == tasks = {}

\* Spec: one user; text messages arrive while at most one upload of that
\* user is in flight.
Next ==
    \/ \E b \in Bodies, ok \in BOOLEAN : FormText("u1", b, NoMid, ok)
    \/ Idle /\ DocRequest("u1", NoMid)
    \/ TaskStep

Spec == InitEmpty /\ [][Next]_vars

\* SpecConc: one user whose uploads overlap (up to MaxTasks in flight).
ConcBodies == {"What is it about?", "/select 2"}
NextConc ==
    \/ \E b \in ConcBodies, ok \in BOOLEAN : FormText("u1", b, NoMid, ok)
    \/ DocRequest("u1", NoMid)
    \/ TaskStep

SpecConc == InitEmpty /\ [][NextConc]_vars

\* SpecUsers: two users, every event handled to completion before the next.
UsersBodies == {"What is it about?", "/delete_all", "/delete 1"}
NextUsers ==
    \/ \E u \in Users, b \in UsersBodies, ok \in BOOLEAN :
          Idle /\ FormText(u, b, NoMid, ok)
    \/ \E u \in Users : Idle /\ DocRequest(u, NoMid)
    \/ TaskStep

SpecUsers == InitEmpty /\ [][NextUsers]_vars

\* SpecQuota: u1 one document short of the limit; uploads through every
\* entry point that inserts a PDFDocument row.
QuotaBodies == {"What is it about?", "/select 2"}
NextQuota ==
    \/ \E b \in QuotaBodies, ok \in BOOLEAN : Idle /\ FormText("u1", b, NoMid, ok)
    \/ Idle /\ DocRequest("u1", NoMid)
    \/ \E good \in BOOLEAN : Idle /\ ApiUpload(good)
    \/ \E pdf \in BOOLEAN, good \in BOOLEAN :
          Idle /\ MainWebhook("u1", "document", pdf, good, NoMid)
    \/ TaskStep

SpecQuota == InitQuota /\ [][NextQuota]_vars

\* SpecDedup: deliveries that carry a message id, on both webhook routes.
DedupBodies == {"What is it about?", "/REPORT"}
NextDedup ==
    \/ \E b \in DedupBodies, m \in MsgIds, ok \in BOOLEAN :
          Idle /\ FormText("u1", b, m, ok)
    \/ \E m \in MsgIds : Idle /\ DocRequest("u1", m)
    \/ \E kind \in {"text", "document"}, pdf \in BOOLEAN, good \in BOOLEAN,
          m \in MsgIds : Idle /\ MainWebhook("u1", kind, pdf, good, m)
    \/ TaskStep

SpecDedup == InitEmpty /\ [][NextDedup]_vars

\* SpecRace: uploads of one user only, overlapping at their awaits.
NextRace ==
    \/ \E u \in {"u1"} : DocRequest(u, NoMid)
    \/ TaskStep

SpecRace == InitEmpty /\ [][NextRace]_vars

\* SpecGate: uploads whose message is built by a caller that passes the
\* document's own mime type and filename (WebhookService.handle_webhook).
NextGate ==
    \/ \E u \in {"u1"} : DocRequest(u, NoMid)
    \/ \E t \in tasks, ok \in BOOLEAN, m \in MimeTypes, f \in Filenames :
          DocTypeCheck(t, ok, m, f)
    \/ TaskResume

SpecGate == InitEmpty /\ [][NextGate]_vars

\* SpecCmd: one user sending commands between uploads.
NextCmd ==
    \/ \E b \in CmdBodies, ok \in BOOLEAN : Idle /\ FormText("u1", b, NoMid, ok)
    \/ Idle /\ DocRequest("u1", NoMid)
    \/ TaskStep

SpecCmd == InitEmpty /\ [][NextCmd]_vars

\* SpecIntent: one user sending texts with intent keywords between uploads.
NextIntent ==
    \/ \E b \in IntentBodies, ok \in BOOLEAN : Idle /\ FormText("u1", b, NoMid, ok)
    \/ Idle /\ DocRequest("u1", NoMid)
    \/ TaskStep

SpecIntent == InitEmpty /\ [][NextIntent]_vars

\* SpecCross: two users whose uploads and texts interleave at the awaits.
CrossBodies == {"/delete 1", "/select 1", "/REPORT"}
NextCross ==
    \/ \E u \in Users, b \in CrossBodies, ok \in BOOLEAN : FormText(u, b, NoMid, ok)
    \/ \E u \in Users : DocRequest(u, NoMid)
    \/ TaskStep

SpecCross == InitEmpty /\ [][NextCross]_vars

\* SpecHook: bodies given to handle_webhook while one user uploads.
NextHook ==
    \/ \E o \in Objects, ty \in EventTypes : HandleWebhook("u1", o, ty)
    \/ DocRequest("u1", NoMid)
    \/ TaskStep

SpecHook == InitEmpty /\ [][NextHook]_vars

\* SpecText: one user sending a command, an intent, a report and questions
\* between uploads.
TextBodies == {"/help", "/REPORT", "Thanks!", "What is it about?"}
NextText ==
    \/ \E b \in TextBodies, ok \in BOOLEAN : Idle /\ FormText("u1", b, NoMid, ok)
    \/ Idle /\ DocRequest("u1", NoMid)
    \/ TaskStep

SpecText == InitEmpty /\ [][NextText]_vars

\* SpecGraph: the workflow graph invoked with a question and a document id,
\* stepped node by node, and invoked again with the State it stopped in.
DocIdStrs == {"1", "good.pdf"}
NextGraph ==
    \/ \E q \in WfInputs \ {""}, d \in DocIdStrs : WorkflowInvoke(q, d)
    \/ WorkflowRerun
    \/ \E i \in WfInputs : WorkflowStep(i)

SpecGraph == InitEmpty /\ [][NextGraph]_vars

\* handle_document run from tables (D, S) at clock t with no other handler
\* running between its awaits: the tables and clock it can leave, and
\* whether it reached _set_user_state, [D, S, t, ok].  Nothing is stored when
\* a download raises or a gate rejects; a completion send that raises re-runs
\* the loop on the same row and writes the same values again.
UploadAlone(D, S, u, t) ==
    {[D |-> D, S |-> S, t |-> t, ok |-> FALSE]} \cup
    {LET st == StoreDocument(D, u, t + 1)
         r == RunAttempts(st.D, S, {}, u, st.doc, 0, p[1], p[2])
     IN [D |-> r.D, S |-> r.S, t |-> t + 1, ok |-> r.ok] :
        p \in {q \in BOOLEAN \X (0..(MAX_RETRIES + 1)) : q[2] \in Wins(0, q[1])}}

\* ================================================================ properties
\* a text that handle_text takes for neither a command nor a special intent
PlainText(e) ==
    /\ e.op = "text"
    /\ ~StartsWithSlash(Lower(e.body))
    /\ SpecialIntent(Lower(e.body)) = "none"

\* C1: in every reachable state every owner has at most MAX_DOCS stored
\* documents, whichever entry point stored them (handle_document, the JSON
\* webhook of app/main.py, process_uploaded_pdf).
C1_QuotaHolds ==
    \A u \in Owners : Cardinality(DocsOf(docs, u)) <= MAX_DOCS

\* C2: a handle_document step that stores a document for a user holding
\* exactly MAX_DOCS documents removes exactly one of them, one with the
\* smallest upload_date, and leaves MAX_DOCS; for a user holding fewer it
\* removes none; either way exactly one row is added, the new document,
\* newer than every document the user had.
C2_EvictsExactlyOldest ==
    [][(ev'.op = "doc_ingest" /\ ev'.stored) =>
        LET before == DocsOf(docs, ev'.user)
            after == DocsOf(docs', ev'.user)
        IN /\ Cardinality(before) = MAX_DOCS =>
                /\ \E d \in before :
                      /\ \A e \in before : d.upload_date <= e.upload_date
                      /\ before \ after = {d}
                /\ Cardinality(after) = MAX_DOCS
           /\ Cardinality(before) < MAX_DOCS => before \ after = {}
           /\ Cardinality(after \ before) = 1
           /\ \A d \in after \ before :
                 /\ d.id = ev'.doc
                 /\ \A e \in before : e.upload_date < d.upload_date
       ]_vars

\* C2 witness: handle_document has just stored a document for a user at the
\* limit: one document was evicted and MAX_DOCS remain.
C2_Witness ==
    /\ ev.op = "doc_ingest" /\ ev.stored
    /\ ev.evicted # None /\ ev.evicted \notin DocIds(docs)
    /\ Cardinality(DocsOf(docs, ev.user)) = MAX_DOCS

\* C3: in every reachable state the active_pdf_id of every UserState row is
\* None or the id of an existing PDFDocument row.
C3_ActiveNeverDangling ==
    \A r \in userStates :
        r.active_pdf_id = None \/ r.active_pdf_id \in DocIds(docs)

\* C4: the document a user's question is handed to get_answer with is owned
\* by that user.
C4_AnsweredFromOwnDocument ==
    (ev.op = "text" /\ ev.qa # None) =>
        \A d \in docs : d.id = ev.qa => d.user_id = ev.user

\* C5: the delivery of a message id that was delivered before adds no
\* document, changes no UserState row and sends no reply, on both webhook
\* routes; and no message id has more than one ProcessedMessage row.
C5_RedeliveryHasNoEffect ==
    [][/\ ev'.redelivery =>
            /\ docs' = docs
            /\ userStates' = userStates
            /\ ev'.replies = <<>>
       /\ \A m \in MsgIds : processed'[m] <= 1
      ]_vars

\* C6: a text message of a user whose state is awaiting_report is captured
\* as the report, whatever its body: it reaches neither handle_command, nor
\* handle_special_intent, nor get_answer.
C6_NextTextIsTheReport ==
    [][(ev'.op = "text" /\ ModeOf(userStates, ev'.user) = "awaiting_report") =>
        /\ ev'.result = "report_received"
        /\ ev'.qa = None
        /\ \E r \in reports' : r.user_id = ev'.user
      ]_vars

\* C7: when a text is captured as a report, a BugReport row with the user's
\* id and the message content (compared without regard to case) exists, the
\* UserState row still exists, and its state is "active" if its
\* active_pdf_id names an existing document and "welcomed" otherwise.
C7_ReportStoredAndModeRestored ==
    [][ev'.result = "report_received" =>
        LET u == ev'.user IN
        /\ \E r \in reports' : r.user_id = u /\ Lower(r.content) = Lower(ev'.body)
        /\ HasState(userStates', u)
        /\ ModeOf(userStates', u) =
              IF ActiveDocRows(docs', userStates', u) # {}
              THEN "active" ELSE "welcomed"
      ]_vars

\* C8: /report, in any state of the user (no UserState row included), sets
\* the state to awaiting_report and leaves active_pdf_id as it was; a state
\* becomes awaiting_report only by that user's /report; and the step that
\* captures the report leaves a state other than awaiting_report.
C8_ReportCommand ==
    [][/\ (ev'.op = "text" /\ Lower(ev'.body) = "/report") =>
            /\ ModeOf(userStates', ev'.user) = "awaiting_report"
            /\ ActiveOf(userStates', ev'.user) = ActiveOf(userStates, ev'.user)
       /\ \A v \in Users :
            (/\ ModeOf(userStates', v) = "awaiting_report"
             /\ ModeOf(userStates, v) # "awaiting_report") =>
                (ev'.op = "text" /\ ev'.user = v /\ Lower(ev'.body) = "/report")
       /\ ev'.result = "report_received" =>
            ModeOf(userStates', ev'.user) # "awaiting_report"
      ]_vars

\* C8 witness: /report has just been handled for a user who has an active
\* document: the state is awaiting_report and the document is still active.
C8_Witness ==
    /\ ev.op = "text" /\ ev.result = "report_started"
    /\ ModeOf(userStates, ev.user) = "awaiting_report"
    /\ ActiveOf(userStates, ev.user) \in DocIds(docs)

\* C9: the welcome is sent only in answer to a plain text of a user with no
\* documents whose state is new (or who has no UserState row yet), and that
\* step leaves the state welcomed; every such text gets the welcome; a plain
\* text of a user with no documents in any other state gets a reply that is
\* not the welcome; and a state that is not new never becomes new again.
\* Hence no user is sent the welcome twice.
C9_WelcomeAtMostOnce ==
    [][LET u == ev'.user
           m == ModeOf(userStates, u)
           welcome == /\ ev'.op = "text"
                      /\ \E i \in DOMAIN ev'.replies : ev'.replies[i] = "welcome"
           nodocs == DocsOf(docs, u) = {}
       IN /\ welcome =>
               /\ PlainText(ev') /\ m \in {"none", "new"} /\ nodocs
               /\ ModeOf(userStates', u) = "welcomed"
          /\ (PlainText(ev') /\ m \in {"none", "new"} /\ nodocs) => welcome
          /\ (PlainText(ev') /\ m \notin {"none", "new"} /\ nodocs) =>
               (ev'.replies # <<>> /\ ~welcome)
          /\ \A v \in Users :
               ModeOf(userStates, v) \notin {"none", "new"} =>
                   ModeOf(userStates', v) \notin {"none", "new"}
      ]_vars

\* C9 witness: a welcomed user without documents has sent another plain
\* text and got the reminder, not the welcome.
C9_Witness ==
    /\ PlainText(ev)
    /\ ev.replies = <<"no_pdf_reminder">>
    /\ ModeOf(userStates, ev.user) = "welcomed"
    /\ DocsOf(docs, ev.user) = {}

\* C10: an ingestion that completes after the ingestion of an upload the
\* same user requested later does not make its own document the active one.
C10_StaleIngestionKeepsNewer ==
    (/\ ev.op \in {"doc_ingest", "doc_complete"}
     /\ ev.result = "suspended"
     /\ ev.doc # None
     /\ \E b \in ingested : b.user = ev.user /\ b.req > ev.req) =>
        ActiveOf(userStates, ev.user) # ev.doc
\* C11: when two overlapping uploads of one user have both been handled,
\* whatever the interleaving at their awaits, the PDFDocument and UserState
\* tables are those left by handling one upload completely and then the
\* other, in one of the two orders, each upload reaching _set_user_state in
\* the serial run exactly if it did in the interleaved one.
C11_UploadsSerialisable ==
    (nreq = 2 /\ tasks = {}) =>
        LET done == {b.req : b \in ingested} IN
        \E first \in {1, 2} :
            \E o1 \in UploadAlone({}, {}, "u1", 0) :
                /\ o1.ok = (first \in done)
                /\ \E o2 \in UploadAlone(o1.D, o1.S, "u1", o1.t) :
                      /\ o2.ok = ((3 - first) \in done)
                      /\ o2.D = docs
                      /\ o2.S = userStates

\* C12: a question about a document whose stored text is non-empty, with
\* get_answer's chain running without a raise, is answered from that
\* document's vector store, which exists afterwards whether or not it
\* existed before (it is rebuilt from the stored text when missing).
C12_AnswerRebuildsIndex ==
    (/\ ev.qa # None
     /\ ev.answer # "error_string"
     /\ \E d \in docs : d.id = ev.qa /\ d.content # "") =>
        (ev.answer = "answer" /\ ev.qa \in vectorstores)

\* C13: a question whose target document has empty stored text gets a
\* declining reply (the handler does not raise, the reply is not an answer)
\* and no vector store is queried for it.
C13_EmptyDocumentDeclined ==
    (/\ ev.qa # None
     /\ \E d \in docs : d.id = ev.qa /\ d.content = "") =>
        /\ ~ev.retrieved
        /\ ev.answer # "answer"
        /\ ev.result # "raised"
        /\ ev.replies = <<"no_info">>

\* C14: when get_answer's chain fails, get_answer still returns (the error
\* string), the user gets a reply, the text handler returns without raising,
\* and the UserState and PDFDocument tables are as they were before the
\* text was handled.
C14_AnswerFailureAbsorbed ==
    [][(ev'.qa # None /\ ev'.answer = "error_string") =>
        /\ ev'.replies # <<>>
        /\ ev'.result # "raised"
        /\ userStates' = userStates
        /\ docs' = docs
      ]_vars

\* C15: in every reachable state every key of _vectorstores is the id of an
\* existing PDFDocument row whose content is non-empty.
C15_IndexEntriesHaveDocuments ==
    \A k \in vectorstores : \E d \in docs : d.id = k /\ d.content # ""

\* filename.endswith(".pdf")
EndsWithPdf(f) == f \in {"report.pdf"}

\* C16: the type check rejects a document as unsupported exactly when its
\* mime type is not application/pdf and its filename does not end in .pdf;
\* the size check rejects it as too large exactly when it has more than
\* 5 * 1024 * 1024 bytes.
C16_UploadGate ==
    /\ (ev.op = "doc_download1" /\ ev.mime_type # "") =>
          ((ev.result = "unsupported_document_type") <=>
              ~(ev.mime_type = "application/pdf" \/ EndsWithPdf(ev.filename)))
    /\ (ev.op = "doc_ingest") =>
          ((ev.result = "file_too_large") <=> (ev.size > 5 * 1024 * 1024))

\* C17: the step in which handle_document rejects an upload (type or size)
\* changes no PDFDocument row, no UserState row and no vector store, and the
\* upload has produced exactly one outbound message when it returns.
C17_RejectedUploadLeavesNoTrace ==
    [][ev'.result \in {"unsupported_document_type", "file_too_large"} =>
        /\ docs' = docs
        /\ userStates' = userStates
        /\ vectorstores' = vectorstores
        /\ Len(ev'.replies) = 1
      ]_vars

\* C18: when handle_document returns unsupported_document_type, the call
\* has not invoked download_pdf_from_whatsapp: the step that rejects is not
\* the resumption of a call suspended in a download.
C18_TypeCheckBeforeDownload ==
    [][ev'.result = "unsupported_document_type" =>
        ~\E t \in tasks : t.req = ev'.req /\ t.pc \in {"download1", "download2"}
      ]_vars

C20_IngestionSuccess ==
    [][(ev'.op \in {"doc_ingest", "doc_complete"} /\ ev'.result = "suspended") =>
        /\ \E d \in docs' : /\ d.id = ev'.doc
                            /\ d.content # ""
                            /\ d.processed = TRUE
        /\ ev'.doc \in vectorstores'
        /\ HasState(userStates', ev'.user)
        /\ ActiveOf(userStates', ev'.user) = ev'.doc
        /\ ModeOf(userStates', ev'.user) = "active"
      ]_vars

\* the completion message and the two failure messages of handle_document
IsTerminalNotice(m) == m \in {"finished", "sorry_retries", "sorry_error"}

\* C21: an upload that stores its document has sent the "Processing"
\* message before its first extraction attempt, and the step in which it
\* returns sends exactly one terminal message: the completion message when
\* it returns success, one failure message when it returns the error.
C21_OneTerminalNotification ==
    [][/\ (ev'.op = "doc_ingest" /\ ev'.stored) =>
              (ev'.replies # <<>> /\ ev'.replies[1] = "processing")
       /\ (ev'.op \in {"doc_ingest", "doc_complete"}
           /\ ev'.result \in {"success", "document_processing_exception"}) =>
              LET term == SelectSeq(ev'.replies, IsTerminalNotice) IN
              /\ Len(term) = 1
              /\ ev'.result = "success" => term = <<"finished">>
              /\ ev'.result # "success" => term[1] # "finished"
      ]_vars

\* C22: a download that fails does not make handle_document raise: the call
\* returns an error result and the user has been sent a failure message.
C22_DownloadFailureHandled ==
    (ev.op \in {"doc_download1", "doc_download2"}) =>
        /\ ev.result # "raised"
        /\ (ev.result # "suspended" => ev.replies # <<>>)

\* the /select message whose argument is n
SelectBody(n) == IF n = 1 THEN "/select 1" ELSE "/select 2"

\* C23: /select n with 1 <= n <= the number of the user's documents makes
\* active_pdf_id the id of the user's document that has exactly n - 1 newer
\* documents of that user when the command arrives, makes the state
\* "active", and leaves the PDFDocument table as it was.
C23_SelectSetsNth ==
    [][\A n \in 1..2 :
         (/\ ev'.op = "text" /\ ev'.body = SelectBody(n)
          /\ n <= Cardinality(DocsOf(docs, ev'.user))) =>
            /\ \E d \in DocsOf(docs, ev'.user) :
                  /\ Cardinality({e \in DocsOf(docs, ev'.user) :
                                     e.upload_date > d.upload_date}) = n - 1
                  /\ ActiveOf(userStates', ev'.user) = d.id
            /\ ModeOf(userStates', ev'.user) = "active"
            /\ docs' = docs
            /\ ev'.result = "select"
      ]_vars

\* C23 witness: with two documents listed newest first, /select 2 has made
\* the older one active.
C23_Witness ==
    /\ ev.op = "text" /\ ev.body = "/select 2" /\ ev.result = "select"
    /\ Cardinality(DocsOf(docs, "u1")) = 2
    /\ ActiveOf(userStates, "u1") = OldestDoc(docs, "u1").id
    /\ ActiveOf(userStates, "u1") # NewestDoc(docs, "u1").id

\* the /select and /delete messages, and the number each one carries
\* (0 when it carries none or a non-numeric one)
IndexBodies == {"/select 1", "/select 2", "/select x", "/select", "/select 0",
                "/delete 1", "/delete 2", "/delete 0", "/delete 99"}
IndexArg(b) ==
    CASE b \in {"/select 1", "/delete 1"} -> 1
      [] b \in {"/select 2", "/delete 2"} -> 2
      [] b = "/delete 99" -> 99
      [] OTHER -> 0

\* C24: /select N or /delete N whose N is non-numeric, missing, below 1 or
\* above the number of the user's documents is answered with one error
\* reply and an error result, and changes neither the PDFDocument table nor
\* the UserState table.
C24_InvalidIndexRejected ==
    [][(/\ ev'.op = "text" /\ ev'.body \in IndexBodies
        /\ \/ IndexArg(ev'.body) < 1
           \/ IndexArg(ev'.body) > Cardinality(DocsOf(docs, ev'.user))) =>
          /\ Len(ev'.replies) = 1
          /\ ev'.replies[1] \in {"invalid_format", "invalid_selection",
                                 "unknown_command"}
          /\ ev'.result \in {"error", "unknown"}
          /\ docs' = docs
          /\ userStates' = userStates
      ]_vars

\* C24 witness: a user with a document and a state row has sent /select 0
\* and has been answered with the invalid-selection reply.
C24_Witness ==
    /\ ev.op = "text" /\ ev.body = "/select 0"
    /\ ev.replies = <<"invalid_selection">>
    /\ DocsOf(docs, "u1") # {}
    /\ HasState(userStates, "u1")

\* the /delete message whose argument is n
DeleteBody(n) == IF n = 1 THEN "/delete 1" ELSE "/delete 2"

\* C25: /delete n with 1 <= n <= the number of the user's documents removes
\* the user's document that has exactly n - 1 newer documents of that user
\* and no other row; active_pdf_id becomes null when it was that document's
\* id and keeps its value otherwise.
C25_DeleteRemovesNth ==
    [][\A n \in 1..2 :
         (/\ ev'.op = "text" /\ ev'.body = DeleteBody(n)
          /\ n <= Cardinality(DocsOf(docs, ev'.user))) =>
            \E d \in DocsOf(docs, ev'.user) :
               /\ Cardinality({e \in DocsOf(docs, ev'.user) :
                                  e.upload_date > d.upload_date}) = n - 1
               /\ docs' = docs \ {d}
               /\ ActiveOf(userStates', ev'.user) =
                     IF ActiveOf(userStates, ev'.user) = d.id THEN None
                     ELSE ActiveOf(userStates, ev'.user)
      ]_vars

\* C26: after /delete_all by a user who had a document the user has no
\* document and active_pdf_id is null, with or without a state row before;
\* for a user without documents /delete_all changes neither table.
C26_DeleteAllClears ==
    [][(ev'.op = "text" /\ ev'.body = "/delete_all") =>
          IF DocsOf(docs, ev'.user) # {}
          THEN /\ DocsOf(docs', ev'.user) = {}
               /\ ActiveOf(userStates', ev'.user) = None
          ELSE docs' = docs /\ userStates' = userStates
      ]_vars

\* upload_date of the user's document with this id
DateOf(D, id) == (CHOOSE d \in D : d.id = id).upload_date

\* C27: /help, /list and an unrecognised command change neither the
\* PDFDocument table nor the UserState table; the /list reply has one line
\* per document of the user, numbered from 1, newest first; an
\* unrecognised command is answered with the unknown-command reply and the
\* error result.
C27_ReadOnlyCommands ==
    [][(ev'.op = "text" /\ ev'.body \in {"/help", "/list", "/nope"}) =>
          /\ docs' = docs
          /\ userStates' = userStates
          /\ Len(ev'.replies) = 1
          /\ ev'.body = "/list" =>
                LET n == Cardinality(DocsOf(docs, ev'.user)) IN
                /\ DOMAIN ev'.listing = 1..n
                /\ {ev'.listing[i] : i \in 1..n} = DocIds(DocsOf(docs, ev'.user))
                /\ \A i, j \in 1..n :
                      i < j => DateOf(docs, ev'.listing[i]) > DateOf(docs, ev'.listing[j])
                /\ (n = 0) = (ev'.replies = <<"no_pdfs">>)
          /\ ev'.body = "/nope" =>
                ev'.replies = <<"unknown_command">> /\ ev'.result = "unknown"
      ]_vars

\* C27 witness: /list has enumerated two documents, the newer one first.
C27_Witness ==
    /\ ev.op = "text" /\ ev.body = "/list"
    /\ Len(ev.listing) = 2
    /\ ev.listing[1] = NewestDoc(docs, "u1").id
    /\ ev.listing[2] = OldestDoc(docs, "u1").id
    /\ HasState(userStates, "u1")

\* the intent reply due to a body: the first of upload, thanks, capabilities
\* whose keyword the body contains, whatever its case
ExpectedIntent(b) ==
    CASE b \in {"please upload", "Thanks for the upload"} -> "upload"
      [] b \in {"Thanks!", "Thanks, what can you do"} -> "thanks"
      [] b = "what can you do" -> "capabilities"
      [] OTHER -> "none"

\* C28: a text that is no command and contains an intent keyword, sent
\* while the state is not awaiting_report, is answered with the reply of
\* the first matching intent (upload, thanks, capabilities), is not handed
\* to get_answer, and changes neither the UserState nor the PDFDocument
\* table.
C28_IntentReplyOnly ==
    [][(/\ ev'.op = "text" /\ ExpectedIntent(ev'.body) # "none"
        /\ ModeOf(userStates, ev'.user) # "awaiting_report") =>
          /\ ev'.replies = <<ExpectedIntent(ev'.body)>>
          /\ ev'.qa = None
          /\ ev'.answer = ""
          /\ ev'.result = "intent_handled"
          /\ userStates' = userStates
          /\ docs' = docs
      ]_vars

\* C28 witness: a user with an active document has sent a text with both
\* the thanks and the upload keyword and has got the upload reply.
C28_Witness ==
    /\ ev.op = "text" /\ ev.body = "Thanks for the upload"
    /\ ev.replies = <<"upload">>
    /\ ModeOf(userStates, "u1") = "active"
    /\ ActiveOf(userStates, "u1") \in DocIds(docs)

\* C29: a question (no command, no intent keyword, state not
\* awaiting_report) from a user whose active_pdf_id is not set is not handed
\* to get_answer and leaves active_pdf_id unset; the user is told to upload
\* a PDF, whether or not the user has documents.
C29_NoActiveNoAnswer ==
    [][(/\ PlainText(ev')
        /\ ModeOf(userStates, ev'.user) # "awaiting_report"
        /\ ActiveOf(userStates, ev'.user) = None) =>
          /\ ev'.qa = None
          /\ ActiveOf(userStates', ev'.user) = None
          /\ ev'.replies \in {<<"welcome">>, <<"no_pdf_reminder">>}
      ]_vars

\* C30: a question from a user whose active_pdf_id is the id of a stored
\* document is handed to get_answer with that id, the reply sent is what
\* get_answer returned, and a state new or welcomed becomes active.
C30_AnswerFromActiveIsSent ==
    [][(/\ PlainText(ev')
        /\ ModeOf(userStates, ev'.user) # "awaiting_report"
        /\ ActiveOf(userStates, ev'.user) \in DocIds(DocsOf(docs, ev'.user))) =>
          /\ ev'.qa = ActiveOf(userStates, ev'.user)
          /\ ev'.replies = <<ev'.answer>>
          /\ ModeOf(userStates', ev'.user) = "active"
      ]_vars

\* C31: a step of a handler working for one user leaves every other user's
\* PDFDocument rows, UserState row and BugReport rows as they were.
C31_OtherUsersUntouched ==
    [][\A b \in Users :
          b # ev'.user =>
             /\ DocsOf(docs', b) = DocsOf(docs, b)
             /\ {r \in userStates' : r.user_id = b} = {r \in userStates : r.user_id = b}
             /\ {r \in reports' : r.user_id = b} = {r \in reports : r.user_id = b}
      ]_vars

\* C32: after every step each user has at most one UserState row; a row
\* that exists is never removed; a row appears only in a step of a handler
\* working for that user.
C32_OneStateRowPerUser ==
    [][\A u \in Users :
          /\ Cardinality({r \in userStates' : r.user_id = u}) <= 1
          /\ HasState(userStates, u) => HasState(userStates', u)
          /\ (~HasState(userStates, u) /\ HasState(userStates', u)) => ev'.user = u
      ]_vars

\* C32 witness: a report has been captured and a /delete_all has run, and
\* the user still has exactly one row.
C32_Witness ==
    /\ ev.op = "text" /\ ev.body = "/delete_all" /\ ev.replies = <<"all_deleted">>
    /\ reports # {}
    /\ Cardinality({r \in userStates : r.user_id = "u1"}) = 1

\* C33: handle_webhook answers a body whose object is not
\* whatsapp_business_account with the 400 error and sends nothing; a status
\* event returns status_update and sends nothing; an image event sends one
\* rejection message; none of them changes the PDFDocument or the UserState
\* table.
C33_WebhookDispatch ==
    [][ev'.op = "handle_webhook" =>
          /\ docs' = docs /\ userStates' = userStates
          /\ ev'.object # "whatsapp_business_account" =>
                (ev'.result = "http_400" /\ ev'.replies = <<>>)
          /\ (ev'.object = "whatsapp_business_account" /\ ev'.type = "status") =>
                (ev'.result = "status_update" /\ ev'.replies = <<>>)
          /\ (ev'.object = "whatsapp_business_account" /\ ev'.type = "image") =>
                (ev'.result = "unsupported_file_type" /\ Len(ev'.replies) = 1)
      ]_vars

\* C36: a user whose state is awaiting_report keeps that state in every
\* step other than the capture of that user's report.
C36_AwaitingReportIsKept ==
    [][\A u \in Users :
          (/\ ModeOf(userStates, u) = "awaiting_report"
           /\ ~(ev'.user = u /\ ev'.result = "report_received")) =>
             ModeOf(userStates', u) = "awaiting_report"
      ]_vars

\* C37: a ProcessedMessage row exists for a message id only when the
\* handling of that message came to its end: a delivery to the JSON webhook
\* that ends in an exception leaves no row for its id.
C37_ProcessedOnlyWhenHandled ==
    (ev.op = "main_webhook" /\ ev.mid # NoMid /\ ev.result = "raised") =>
        processed[ev.mid] = 0

\* C38: the only upload made so far, on a database without UserState rows,
\* has returned an error result: there is still no UserState row.
C38_FailedUploadKeepsState ==
    (/\ nreq = 1 /\ ev.req = 1
     /\ ev.result \in {"unsupported_document_type", "file_too_large",
                       "document_processing_exception"}) =>
        userStates = {}

C34_GraphRouting ==
    /\ wf.ran = "validate_document" =>
          /\ wf.node = "request_question" <=> wf.valid
          /\ wf.node = "handle_invalid_document" <=> ~wf.valid
    /\ wf.ran = "handle_invalid_document" =>
          wf.state.file_path = "" /\ wf.node = "initialize_context"
    /\ wf.ran = "request_question" =>
          /\ wf.node = "END" <=> wf.state.command = "end"
          /\ wf.node = "initialize_context" <=> wf.state.command = "new"
          /\ wf.node = "generate_response" <=> wf.state.command \notin {"end", "new"}
    /\ wf.ran = "generate_response" => wf.node = "request_question"
    /\ wf.node = "END" =>
          wf.ran = "request_question" /\ wf.state.command = "end"

\* a system message carrying the welcome; a system message carrying the
\* error text of handle_invalid_document for some path
IsWelcomeNotice(msg) == msg.role = "system" /\ msg.content = WelcomeMessage
IsErrorNotice(msg) ==
    msg.role = "system" /\ \E p \in WfInputs : msg.content = ErrorMessage(p)

\* C35: over any number of runs of the workflow the message list holds at
\* most one welcome message and at most one copy of each error message of
\* handle_invalid_document; show_welcome run on a list that holds the
\* welcome leaves the list as it is, and handle_invalid_document appends its
\* error message exactly when no identical system message is in the list.
C35_NoticesAddedOnce ==
    LET messages == wf.state.messages
        before == wf.prev.messages
        error_notice == Message("system", ErrorMessage(wf.prev.file_path))
    IN  /\ Cardinality({i \in 1..Len(messages) : IsWelcomeNotice(messages[i])}) <= 1
        /\ \A i, j \in 1..Len(messages) :
              (IsErrorNotice(messages[i]) /\ messages[i] = messages[j]) => i = j
        /\ (/\ wf.ran = "show_welcome"
            /\ \E i \in 1..Len(before) : IsWelcomeNotice(before[i])) =>
              messages = before
        /\ wf.ran = "handle_invalid_document" =>
              messages = IF \E i \in 1..Len(before) : before[i] = error_notice
                         THEN before ELSE Append(before, error_notice)

\* show_welcome has run on a list that held the welcome and an error message
C35_Witness ==
    /\ wf.ran = "show_welcome"
    /\ \E i \in 1..Len(wf.prev.messages) : IsWelcomeNotice(wf.prev.messages[i])
    /\ \E i \in 1..Len(wf.prev.messages) : IsErrorNotice(wf.prev.messages[i])
    /\ Cardinality({i \in 1..Len(wf.state.messages) :
                       IsWelcomeNotice(wf.state.messages[i])}) = 1

====
